---- MODULE Spec2Model ----
(***************************************************************************)
(* A model of savefile.rs: the little-endian byte codec, the Schema        *)
(* algebra and its wire format, diff_schema, the container codecs, the     *)
(* ReprC fast path of Vec<T>, and the save_impl / load_impl drivers.       *)
(*                                                                         *)
(* A Rust String is its UTF-8 bytes, so a string is a sequence of bytes    *)
(* here.  Integers wider than TLC's are kept as little-endian digit        *)
(* sequences (one byte per digit) wherever their width matters.            *)
(***************************************************************************)
EXTENDS Integers, Sequences, FiniteSets, TLC

\* ------------------------------------------------------------------------
\* Bounds of the model.
\* ------------------------------------------------------------------------
MaxVersion == 1
MaxFields == 2
MaxVariants == 2
MaxLen == 2
MaxPayload == 8
MaxSink == 12

\* ------------------------------------------------------------------------
\* Strings that occur in the program text or as names in schemas.
\* ------------------------------------------------------------------------
Str_dot == <<46>>
Str_slash == <<47>>
Str_slash_star == <<47, 42>>
Str_struct_open == <<32, 40, 115, 116, 114, 117, 99, 116, 32>>
Str_close == <<41>>
Str_empty == <<>>
Str_key == <<107, 101, 121>>
Str_value == <<118, 97, 108, 117, 101>>
Str_KeyValuePair == <<75, 101, 121, 86, 97, 108, 117, 101, 80, 97, 105, 114>>
Str_x == <<120>>
Str_y == <<121>>
Str_A == <<65>>
Str_B == <<66>>

\* ------------------------------------------------------------------------
\* Option and Result.
\* ------------------------------------------------------------------------
None == [some |-> FALSE]
Some(m) == [some |-> TRUE, msg |-> m]

\* ------------------------------------------------------------------------
\* The Schema algebra.
\* ------------------------------------------------------------------------
\* SchemaPrimitive, in declaration order; the position is the wire
\* discriminator written by SchemaPrimitive::serialize.
SchemaPrimitive ==
    << "schema_i8", "schema_u8", "schema_i16", "schema_u16", "schema_i32",
       "schema_u32", "schema_i64", "schema_u64", "schema_isize",
       "schema_usize", "schema_string" >>

SchemaPrimitiveSet == {SchemaPrimitive[i] : i \in DOMAIN SchemaPrimitive}

Field(name, value) == [name |-> name, value |-> value]
Variant(name, discriminator, fields) ==
    [name |-> name, discriminator |-> discriminator, fields |-> fields]
Schema_Struct(dbg_name, fields) ==
    [kind |-> "Struct", dbg_name |-> dbg_name, fields |-> fields]
Schema_Enum(variants) == [kind |-> "Enum", variants |-> variants]
Schema_Primitive(p) == [kind |-> "Primitive", prim |-> p]
Schema_Vector(elem) == [kind |-> "Vector", elem |-> elem]
Schema_Undefined == [kind |-> "Undefined"]

\* The lower-case kind names diff_schema prints.
KindName(s) ==
    CASE s.kind = "Struct" -> "struct"
      [] s.kind = "Enum" -> "enum"
      [] s.kind = "Primitive" -> "primitive"
      [] s.kind = "Vector" -> "vector"
      [] s.kind = "Undefined" -> "undefined"

\* ------------------------------------------------------------------------
\* diff_schema and its helpers.  A message is a record: text names the
\* format string, path is the location, and the remaining fields are the
\* format arguments under the labels the format string gives them.
\* ------------------------------------------------------------------------
\* Mutant: the comparison is forgotten.
diff_primitive_no_compare(a, b, path) == None

\* Mutant: the comparison is inverted.
diff_primitive_inverted(a, b, path) ==
    IF a = b
    THEN Some([text |-> "datatype", path |-> path, application |-> a, disk |-> b])
    ELSE None

diff_primitive(a, b, path) ==
    IF a # b
    THEN Some([text |-> "datatype", path |-> path, application |-> a, disk |-> b])
    ELSE None

RECURSIVE diff_schema(_, _, _)
RECURSIVE diff_fields_loop(_, _, _, _, _, _)
RECURSIVE diff_enum_loop(_, _, _, _)

\* Mutant: the element is compared under the path of the vector.
diff_vector_same_path(a, b, path) == diff_schema(a, b, path)
diff_vector(a, b, path) == diff_schema(a, b, path \o Str_slash_star)

\* for i in 0..a.len() of diff_fields; i is the 1-based position.
diff_fields_loop(a, b, path, extra_a, extra_b, i) ==
    IF i > Len(a) THEN None
    ELSE IF a[i].name # b[i].name
    THEN Some([text |-> "field name", path |-> path, index |-> i - 1,
               extra_a |-> extra_a, extra_b |-> extra_b,
               in_memory |-> a[i].name, disk |-> b[i].name])
    ELSE LET r == diff_schema(a[i].value, b[i].value,
                              path \o Str_slash \o a[i].name)
         IN  IF r.some THEN r
             ELSE diff_fields_loop(a, b, path, extra_a, extra_b, i + 1)

diff_fields(a, b, path, structuretype, extra_a, extra_b) ==
    IF Len(a) # Len(b)
    THEN Some([text |-> "field count", path |-> path,
               structuretype |-> structuretype,
               extra_a |-> extra_a, extra_b |-> extra_b,
               in_memory |-> Len(a), disk |-> Len(b)])
    ELSE diff_fields_loop(a, b, path, extra_a, extra_b, 1)

diff_struct(a, b, path) ==
    diff_fields(a.fields, b.fields, path, "struct",
                Str_struct_open \o a.dbg_name \o Str_close,
                Str_struct_open \o b.dbg_name \o Str_close)

\* Mutant: the discriminator of a variant is compared before its name.
diff_enum_loop_discriminator_first(a, b, path, i) ==
    IF i > Len(a.variants) THEN None
    ELSE IF a.variants[i].discriminator # b.variants[i].discriminator
    THEN Some([text |-> "variant discriminator", path |-> path, index |-> i - 1,
               in_memory |-> a.variants[i].discriminator,
               disk |-> b.variants[i].discriminator])
    ELSE IF a.variants[i].name # b.variants[i].name
    THEN Some([text |-> "variant name", path |-> path, index |-> i - 1,
               in_memory |-> a.variants[i].name, disk |-> b.variants[i].name])
    ELSE LET r == diff_fields(a.variants[i].fields, b.variants[i].fields,
                              path \o Str_slash \o a.variants[i].name,
                              "enum", Str_empty, Str_empty)
         IN  IF r.some THEN r ELSE diff_enum_loop(a, b, path, i + 1)

\* for i in 0..a.variants.len() of diff_enum.
diff_enum_loop(a, b, path, i) ==
    IF i > Len(a.variants) THEN None
    ELSE IF a.variants[i].name # b.variants[i].name
    THEN Some([text |-> "variant name", path |-> path, index |-> i - 1,
               in_memory |-> a.variants[i].name, disk |-> b.variants[i].name])
    ELSE IF a.variants[i].discriminator # b.variants[i].discriminator
    THEN Some([text |-> "variant discriminator", path |-> path, index |-> i - 1,
               in_memory |-> a.variants[i].discriminator,
               disk |-> b.variants[i].discriminator])
    ELSE LET r == diff_fields(a.variants[i].fields, b.variants[i].fields,
                              path \o Str_slash \o a.variants[i].name,
                              "enum", Str_empty, Str_empty)
         IN  IF r.some THEN r ELSE diff_enum_loop(a, b, path, i + 1)

diff_enum(a, b, path) ==
    IF Len(a.variants) # Len(b.variants)
    THEN Some([text |-> "variant count", path |-> path,
               in_memory |-> Len(a.variants), disk |-> Len(b.variants)])
    ELSE diff_enum_loop(a, b, path, 1)

\* Mutant: the kinds are compared before Undefined is looked for.
diff_schema_kind_first(a, b, path) ==
    IF a.kind # b.kind
    THEN Some([text |-> "schema kind", path |-> path,
               in_memory |-> KindName(a), file |-> KindName(b)])
    ELSE CASE a.kind = "Struct" -> diff_struct(a, b, path)
           [] a.kind = "Enum" -> diff_enum(a, b, path)
           [] a.kind = "Primitive" -> diff_primitive(a.prim, b.prim, path)
           [] a.kind = "Vector" -> diff_vector(a.elem, b.elem, path)
           [] a.kind = "Undefined" ->
                Some([text |-> "Undefined schema encountered", path |-> path])

diff_schema(a, b, path) ==
    IF a.kind = "Undefined"
    THEN Some([text |-> "Undefined schema encountered", path |-> path])
    ELSE IF a.kind # b.kind
    THEN Some([text |-> "schema kind", path |-> path,
               in_memory |-> KindName(a), file |-> KindName(b)])
    ELSE CASE a.kind = "Struct" -> diff_struct(a, b, path)
           [] a.kind = "Enum" -> diff_enum(a, b, path)
           [] a.kind = "Primitive" -> diff_primitive(a.prim, b.prim, path)
           [] a.kind = "Vector" -> diff_vector(a.elem, b.elem, path)

\* ------------------------------------------------------------------------
\* The build target: the word size in bytes, the byte order of the host
\* and whether arithmetic overflow is checked (a debug build) or wraps.
\* ------------------------------------------------------------------------
TargetSet ==
    [word : {4, 8}, big_endian : BOOLEAN, overflow_checks : BOOLEAN]

\* ------------------------------------------------------------------------
\* Byte codec.  Written bytes are returned; the caller appends them to the
\* sink.
\* ------------------------------------------------------------------------
RECURSIVE LittleEndian(_, _)
\* The n low bytes of the two's complement representation of v, lowest first.
LittleEndian(v, n) ==
    IF n = 0 THEN <<>> ELSE <<v % 256>> \o LittleEndian(v \div 256, n - 1)

RECURSIVE Reverse(_)
Reverse(s) == IF s = <<>> THEN <<>> ELSE Reverse(Tail(s)) \o <<Head(s)>>

RECURSIVE UnsignedOf(_)
\* The unsigned integer a little-endian byte sequence denotes.
UnsignedOf(bytes) ==
    IF bytes = <<>> THEN 0 ELSE Head(bytes) + 256 * UnsignedOf(Tail(bytes))

RECURSIVE SignedOf(_)
\* The two's complement integer a little-endian byte sequence denotes.
SignedOf(bytes) ==
    IF Len(bytes) = 1
    THEN (IF Head(bytes) < 128 THEN Head(bytes) ELSE Head(bytes) - 256)
    ELSE Head(bytes) + 256 * SignedOf(Tail(bytes))

write_u8(v) == <<v>>
write_i8(v) == LittleEndian(v, 1)
write_u16(v) == LittleEndian(v, 2)
write_i16(v) == LittleEndian(v, 2)
\* Mutant: the most significant byte is written first.
write_u32_big_endian(v) == Reverse(LittleEndian(v, 4))
write_u32(v) == LittleEndian(v, 4)
write_i32(v) == LittleEndian(v, 4)
write_u64(v) == LittleEndian(v, 8)
write_i64(v) == LittleEndian(v, 8)
\* v as u64 / v as i64: widening keeps the value.
write_usize(v) == LittleEndian(v, 8)
write_isize(v) == LittleEndian(v, 8)
write_buf(v) == v
write_string(v) == write_usize(Len(v)) \o v

\* ------------------------------------------------------------------------
\* Types that implement WithSchema / Serialize / Deserialize.
\* ------------------------------------------------------------------------
IntNames == {"u8", "i8", "u16", "i16", "u32", "i32", "u64", "i64", "usize", "isize"}
MetaNames == {"Field", "Variant", "SchemaStruct", "SchemaEnum", "SchemaPrimitive", "Schema"}

T_Int(n) == [k |-> "int", name |-> n]
T_String == [k |-> "String"]
T_Vec(e) == [k |-> "Vec", elem |-> e]
T_HashMap(key, value) == [k |-> "HashMap", key |-> key, value |-> value]
T_Removed(t) == [k |-> "Removed", inner |-> t]
T_Meta(n) == [k |-> "meta", name |-> n]

Signed(n) == n \in {"i8", "i16", "i32", "i64", "isize"}

\* Bytes one value of the integer type occupies on the wire.
WireSize(n) ==
    CASE n \in {"u8", "i8"} -> 1
      [] n \in {"u16", "i16"} -> 2
      [] n \in {"u32", "i32"} -> 4
      [] n \in {"u64", "i64", "usize", "isize"} -> 8

\* std::mem::size_of::<T>() for the integer types.
size_of(n, target) ==
    IF n \in {"usize", "isize"} THEN target.word ELSE WireSize(n)

\* std::mem::align_of::<T>() for the integer types.
align_of(n, target) == size_of(n, target)

\* impl WithSchema for the integer types.
PrimitiveOf(n) ==
    CASE n = "u8" -> "schema_u8" [] n = "i8" -> "schema_i8"
      [] n = "u16" -> "schema_u16" [] n = "i16" -> "schema_i16"
      [] n = "u32" -> "schema_u32" [] n = "i32" -> "schema_i32"
      [] n = "u64" -> "schema_u64" [] n = "i64" -> "schema_i64"
      [] n = "usize" -> "schema_usize" [] n = "isize" -> "schema_isize"

RECURSIVE schema(_, _)
\* T::schema(version)
schema(t, version) ==
    CASE t.k = "int" -> Schema_Primitive(PrimitiveOf(t.name))
      [] t.k = "String" -> Schema_Primitive("schema_string")
      [] t.k = "Vec" -> Schema_Vector(schema(t.elem, version))
      [] t.k = "HashMap" ->
            Schema_Vector(Schema_Struct(Str_KeyValuePair,
                << Field(Str_key, schema(t.key, version)),
                   Field(Str_value, schema(t.value, version)) >>))
      [] t.k = "Removed" -> schema(t.inner, version)
      [] t.k = "meta" -> Schema_Undefined

\* unsafe impl ReprC for the integer types.
repr_c_optimization_safe(n, version) == TRUE

\* Whether Vec<T> resolves to the impl specialized on T: ReprC.
IsReprC(t) == t.k = "int"

\* The bytes of one integer in memory, as the raw copy of the fast path
\* sees them.
MemoryBytes(n, v, target) ==
    IF target.big_endian
    THEN Reverse(LittleEndian(v, size_of(n, target)))
    ELSE LittleEndian(v, size_of(n, target))

\* impl Serialize for the integer types.
serialize_int(n, v) ==
    CASE n = "u8" -> write_u8(v) [] n = "i8" -> write_i8(v)
      [] n = "u16" -> write_u16(v) [] n = "i16" -> write_i16(v)
      [] n = "u32" -> write_u32(v) [] n = "i32" -> write_i32(v)
      [] n = "u64" -> write_u64(v) [] n = "i64" -> write_i64(v)
      [] n = "usize" -> write_usize(v) [] n = "isize" -> write_isize(v)

index_of_primitive(p) == CHOOSE i \in DOMAIN SchemaPrimitive : SchemaPrimitive[i] = p

RECURSIVE serialize_schema(_)
RECURSIVE serialize_fields(_)
RECURSIVE serialize_variants(_)

\* impl Serialize for Field
serialize_field(f) == write_string(f.name) \o serialize_schema(f.value)

\* for field in &self.fields { field.serialize(serializer)?; }
serialize_fields(fs) ==
    IF fs = <<>> THEN <<>>
    ELSE serialize_field(Head(fs)) \o serialize_fields(Tail(fs))

\* impl Serialize for Variant
serialize_variant(v) ==
    write_string(v.name) \o write_u16(v.discriminator)
        \o write_usize(Len(v.fields)) \o serialize_fields(v.fields)

\* for var in &self.variants { var.serialize(serializer)?; }
serialize_variants(vs) ==
    IF vs = <<>> THEN <<>>
    ELSE serialize_variant(Head(vs)) \o serialize_variants(Tail(vs))

\* impl Serialize for SchemaStruct
serialize_schema_struct(s) ==
    write_string(s.dbg_name) \o write_usize(Len(s.fields))
        \o serialize_fields(s.fields)

\* impl Serialize for SchemaEnum
serialize_schema_enum(e) ==
    write_usize(Len(e.variants)) \o serialize_variants(e.variants)

\* Mutant: the discriminators are counted from 0.
serialize_schema_primitive_from_zero(p) == write_u16(index_of_primitive(p) - 1)
\* impl Serialize for SchemaPrimitive
serialize_schema_primitive(p) == write_u16(index_of_primitive(p))

\* impl Serialize for Schema
serialize_schema(s) ==
    CASE s.kind = "Struct" -> write_u16(1) \o serialize_schema_struct(s)
      [] s.kind = "Enum" -> write_u16(2) \o serialize_schema_enum(s)
      [] s.kind = "Primitive" -> write_u16(3) \o serialize_schema_primitive(s.prim)
      [] s.kind = "Vector" -> write_u16(4) \o serialize_schema(s.elem)
      [] s.kind = "Undefined" -> write_u16(5)

\* ------------------------------------------------------------------------
\* Reading.  A Deserializer d is [bytes, pos, file_version, memory_version,
\* target, env]: the source, the number of bytes consumed so far, the two
\* versions, the build target and the allocator's behaviour.  A result is
\* Ok(value, pos) or Err(error, pos); a panic or an abort of the process is
\* the error "fatal".
\* ------------------------------------------------------------------------
Ok(v, p) == [ok |-> TRUE, val |-> v, pos |-> p]
Err(e, p) == [ok |-> FALSE, err |-> e, pos |-> p]
At(d, p) == [d EXCEPT !.pos = p]

\* The allocator: whether it refuses every request, and what it answers to
\* a request of zero bytes, which the Alloc contract leaves undefined.
EnvSet == [alloc_fails : BOOLEAN, zero_alloc_null : BOOLEAN]

\* Mutant: a short read is taken for a full one, the missing bytes as zeros.
read_exact_zero_filled(d, n) ==
    [ok |-> TRUE,
     val |-> [i \in 1..n |-> IF d.pos + i <= Len(d.bytes) THEN d.bytes[d.pos + i] ELSE 0],
     pos |-> d.pos + n]
\* Read::read_exact: all n bytes, or UnexpectedEof after the source is
\* drained.
read_exact(d, n) ==
    IF d.pos + n <= Len(d.bytes)
    THEN Ok(SubSeq(d.bytes, d.pos + 1, d.pos + n), d.pos + n)
    ELSE Err("IOError", Len(d.bytes))

\* r? followed by the rest of the function: F(value, pos) when r is Ok,
\* else r, the early return.
Then(r, F(_, _)) == IF r.ok THEN F(r.val, r.pos) ELSE r

read_unsigned(d, n) ==
    Then(read_exact(d, n), LAMBDA v, p : Ok(UnsignedOf(v), p))
read_signed(d, n) ==
    Then(read_exact(d, n), LAMBDA v, p : Ok(SignedOf(v), p))

read_u8(d) == read_unsigned(d, 1)
read_u16(d) == read_unsigned(d, 2)
read_u32(d) == read_unsigned(d, 4)
read_u64(d) == read_unsigned(d, 8)
read_i8(d) == read_signed(d, 1)
read_i16(d) == read_signed(d, 2)
read_i32(d) == read_signed(d, 4)
read_i64(d) == read_signed(d, 8)
\* read_u64()? as usize, read_i64()? as isize: the low word of the 8 bytes.
read_usize(d) ==
    Then(read_exact(d, 8),
         LAMBDA v, p : Ok(UnsignedOf(SubSeq(v, 1, d.target.word)), p))
read_isize(d) ==
    Then(read_exact(d, 8),
         LAMBDA v, p : Ok(SignedOf(SubSeq(v, 1, d.target.word)), p))

Continuation(b) == b >= 128 /\ b <= 191

RECURSIVE from_utf8_ok(_)
\* Whether String::from_utf8 accepts the bytes.
from_utf8_ok(v) ==
    IF v = <<>> THEN TRUE
    ELSE LET b == v[1]
             n == Len(v)
         IN  IF b < 128 THEN from_utf8_ok(SubSeq(v, 2, n))
             ELSE IF b >= 194 /\ b <= 223
             THEN n >= 2 /\ Continuation(v[2]) /\ from_utf8_ok(SubSeq(v, 3, n))
             ELSE IF b >= 224 /\ b <= 239
             THEN /\ n >= 3
                  /\ Continuation(v[2]) /\ Continuation(v[3])
                  /\ (b = 224 => v[2] >= 160)
                  /\ (b = 237 => v[2] <= 159)
                  /\ from_utf8_ok(SubSeq(v, 4, n))
             ELSE IF b >= 240 /\ b <= 244
             THEN /\ n >= 4
                  /\ Continuation(v[2]) /\ Continuation(v[3]) /\ Continuation(v[4])
                  /\ (b = 240 => v[2] >= 144)
                  /\ (b = 244 => v[2] <= 143)
                  /\ from_utf8_ok(SubSeq(v, 5, n))
             ELSE FALSE

\* An allocation of the general path (Vec::with_capacity, Vec::push,
\* HashMap::with_capacity): no allocation for zero bytes, an abort when the
\* allocator refuses.
AllocAborts(d, nbytes) == nbytes > 0 /\ d.env.alloc_fails

read_string(d) ==
    Then(read_usize(d), LAMBDA l, p :
        IF AllocAborts(d, l) THEN Err("fatal", p)
        ELSE Then(read_exact(At(d, p), l), LAMBDA v, q :
                IF from_utf8_ok(v) THEN Ok(v, q) ELSE Err("InvalidUtf8", q)))

\* Mutant: an unknown discriminator is taken for the first primitive.
deserialize_schema_primitive_lenient(d) ==
    Then(read_u16(d), LAMBDA c, p :
        IF c \in DOMAIN SchemaPrimitive THEN Ok(SchemaPrimitive[c], p)
        ELSE Ok(SchemaPrimitive[1], p))
\* impl Deserialize for SchemaPrimitive
deserialize_schema_primitive(d) ==
    Then(read_u16(d), LAMBDA c, p :
        IF c \in DOMAIN SchemaPrimitive THEN Ok(SchemaPrimitive[c], p)
        ELSE Err("fatal", p))

RECURSIVE deserialize_schema(_)
RECURSIVE deserialize_fields_loop(_, _, _)
RECURSIVE deserialize_variants_loop(_, _, _)

\* impl Deserialize for Field
deserialize_field(d) ==
    Then(read_string(d), LAMBDA name, p :
        Then(deserialize_schema(At(d, p)), LAMBDA value, q :
            IF AllocAborts(d, 1) THEN Err("fatal", q)
            ELSE Ok(Field(name, value), q)))

\* for _ in 0..l { ret.push(Field::deserialize(deserializer)?) }
deserialize_fields_loop(d, l, ret) ==
    IF l = 0 THEN Ok(ret, d.pos)
    ELSE Then(deserialize_field(d), LAMBDA f, p :
            IF AllocAborts(d, 1) THEN Err("fatal", p)
            ELSE deserialize_fields_loop(At(d, p), l - 1, Append(ret, f)))

\* impl Deserialize for SchemaStruct
deserialize_schema_struct(d) ==
    Then(read_string(d), LAMBDA dbg_name, p :
        Then(read_usize(At(d, p)), LAMBDA l, q :
            Then(deserialize_fields_loop(At(d, q), l, <<>>), LAMBDA fs, r :
                Ok(Schema_Struct(dbg_name, fs), r))))

\* impl Deserialize for Variant
deserialize_variant(d) ==
    Then(read_string(d), LAMBDA name, p :
        Then(read_u16(At(d, p)), LAMBDA discriminator, q :
            Then(read_usize(At(d, q)), LAMBDA l, r :
                Then(deserialize_fields_loop(At(d, r), l, <<>>), LAMBDA fs, u :
                    Ok(Variant(name, discriminator, fs), u)))))

\* for _ in 0..l { ret.push(Variant::deserialize(deserializer)?); }
deserialize_variants_loop(d, l, ret) ==
    IF l = 0 THEN Ok(ret, d.pos)
    ELSE Then(deserialize_variant(d), LAMBDA v, p :
            IF AllocAborts(d, 1) THEN Err("fatal", p)
            ELSE deserialize_variants_loop(At(d, p), l - 1, Append(ret, v)))

\* impl Deserialize for SchemaEnum
deserialize_schema_enum(d) ==
    Then(read_usize(d), LAMBDA l, p :
        Then(deserialize_variants_loop(At(d, p), l, <<>>), LAMBDA vs, q :
            Ok(Schema_Enum(vs), q)))

\* impl Deserialize for Schema
deserialize_schema(d) ==
    Then(read_u16(d), LAMBDA tag, p :
        CASE tag = 1 -> deserialize_schema_struct(At(d, p))
          [] tag = 2 -> deserialize_schema_enum(At(d, p))
          [] tag = 3 ->
                Then(deserialize_schema_primitive(At(d, p)), LAMBDA prim, q :
                    Ok(Schema_Primitive(prim), q))
          [] tag = 4 ->
                Then(deserialize_schema(At(d, p)), LAMBDA s, q :
                    IF AllocAborts(d, 1) THEN Err("fatal", q)
                    ELSE Ok(Schema_Vector(s), q))
          [] tag = 5 -> Ok(Schema_Undefined, p)
          [] OTHER -> Err("fatal", p))

\* ------------------------------------------------------------------------
\* Serialize for the data types.  HashMap iterates in an unspecified order,
\* so serialization yields the set of byte sequences it may write.
\* ------------------------------------------------------------------------
\* All enumerations of a finite set.
Orders(S) ==
    {o \in [1..Cardinality(S) -> S] : \A i, j \in DOMAIN o : i # j => o[i] # o[j]}

Removed_new == [removed |-> TRUE]

RECURSIVE serialize(_, _, _)
RECURSIVE serialize_items(_, _, _)
RECURSIVE serialize_pairs(_, _, _)
RECURSIVE raw_parts(_, _, _)

\* for item in item.iter() { item.serialize(serializer)? }
serialize_items(t, items, ser) ==
    IF items = <<>> THEN {<<>>}
    ELSE {a \o b : a \in serialize(t, Head(items), ser),
                   b \in serialize_items(t, Tail(items), ser)}

regular_serialize_vec(t, item, ser) ==
    {write_usize(Len(item)) \o b : b \in serialize_items(t, item, ser)}

\* std::slice::from_raw_parts(self.as_ptr() as *const u8, size_of::<T>() * l):
\* the vector's backing storage, element after element.
raw_parts(n, items, target) ==
    IF items = <<>> THEN <<>>
    ELSE MemoryBytes(n, Head(items), target) \o raw_parts(n, Tail(items), target)

\* impl<T: Serialize + ReprC> Serialize for Vec<T>
serialize_vec_repr_c(t, v, ser) ==
    IF ~repr_c_optimization_safe(t.name, ser.version)
    THEN regular_serialize_vec(t, v, ser)
    ELSE {write_usize(Len(v)) \o write_buf(raw_parts(t.name, v, ser.target))}

\* for (k, v) in self.iter() { k.serialize(serializer)?; v.serialize(serializer)?; }
serialize_pairs(t, pairs, ser) ==
    IF pairs = <<>> THEN {<<>>}
    ELSE {k \o v \o rest : k \in serialize(t.key, Head(pairs).key, ser),
                           v \in serialize(t.value, Head(pairs).value, ser),
                           rest \in serialize_pairs(t, Tail(pairs), ser)}

\* impl Serialize for HashMap<K, V, S>
serialize_hashmap(t, v, ser) ==
    {write_usize(Cardinality(v)) \o b :
        b \in UNION {serialize_pairs(t, o, ser) : o \in Orders(v)}}

\* impl Serialize for the schema meta-types
serialize_meta(n, v) ==
    CASE n = "Schema" -> serialize_schema(v)
      [] n = "Field" -> serialize_field(v)
      [] n = "Variant" -> serialize_variant(v)
      [] n = "SchemaStruct" -> serialize_schema_struct(v)
      [] n = "SchemaEnum" -> serialize_schema_enum(v)
      [] n = "SchemaPrimitive" -> serialize_schema_primitive(v)

\* value.serialize(serializer) with serializer = [version, target].  A
\* Removed<T> panics instead of writing: it has no outcome here.
serialize(t, v, ser) ==
    CASE t.k = "int" -> {serialize_int(t.name, v)}
      [] t.k = "String" -> {write_string(v)}
      [] t.k = "Vec" ->
            IF IsReprC(t.elem) THEN serialize_vec_repr_c(t.elem, v, ser)
            ELSE regular_serialize_vec(t.elem, v, ser)
      [] t.k = "HashMap" -> serialize_hashmap(t, v, ser)
      [] t.k = "meta" -> {serialize_meta(t.name, v)}
      [] t.k = "Removed" -> {}

\* ------------------------------------------------------------------------
\* Arithmetic on usize values kept as little-endian digits of the word.
\* ------------------------------------------------------------------------
RECURSIVE MulDigits(_, _, _)
\* The digits of ds * k + carry, wrapped to the width of ds.
MulDigits(ds, k, carry) ==
    IF ds = <<>> THEN <<>>
    ELSE LET x == Head(ds) * k + carry
         IN  <<x % 256>> \o MulDigits(Tail(ds), k, x \div 256)

RECURSIVE MulCarry(_, _, _)
\* What ds * k + carry leaves beyond the width of ds.
MulCarry(ds, k, carry) ==
    IF ds = <<>> THEN carry
    ELSE MulCarry(Tail(ds), k, (Head(ds) * k + carry) \div 256)

\* Whether the digits denote a number below 2^31.
IsSmall(ds) ==
    \A i \in DOMAIN ds : (i > 4 => ds[i] = 0) /\ (i = 4 => ds[i] < 128)

IsZero(ds) == \A i \in DOMAIN ds : ds[i] = 0

\* Layout::from_size_align(size, align) is None: align is a power of two
\* here, and size > usize::MAX - (align - 1).
LayoutIsNone(size, align) ==
    /\ \A i \in DOMAIN size : i > 1 => size[i] = 255
    /\ size[1] > 255 - (align - 1)

\* ------------------------------------------------------------------------
\* Deserialize for the data types.
\* ------------------------------------------------------------------------
\* impl Deserialize for the integer types.
deserialize_int(n, d) ==
    CASE n = "u8" -> read_u8(d) [] n = "i8" -> read_i8(d)
      [] n = "u16" -> read_u16(d) [] n = "i16" -> read_i16(d)
      [] n = "u32" -> read_u32(d) [] n = "i32" -> read_i32(d)
      [] n = "u64" -> read_u64(d) [] n = "i64" -> read_i64(d)
      [] n = "usize" -> read_usize(d) [] n = "isize" -> read_isize(d)

\* One element of a buffer reinterpreted as [T].
FromMemoryBytes(n, bytes, target) ==
    LET le == IF target.big_endian THEN Reverse(bytes) ELSE bytes
    IN  IF Signed(n) THEN SignedOf(le) ELSE UnsignedOf(le)

\* Vec::from_raw_parts(ptr as *mut T, num_elems, num_elems) over a buffer of
\* the bytes read.  When the buffer holds fewer than num_elems elements the
\* vector reaches past its allocation.
from_raw_parts(n, buf, num_elems, target) ==
    LET size == size_of(n, target)
    IN  IF MulCarry(num_elems, size, 0) = 0
        THEN [i \in 1..UnsignedOf(num_elems) |->
                FromMemoryBytes(n, SubSeq(buf, (i - 1) * size + 1, i * size), target)]
        ELSE [len_exceeds_allocation |-> TRUE, len |-> num_elems, allocated |-> Len(buf)]

\* The outcome of the fast path with what became of the raw buffer:
\* allocated is the size requested from the allocator (NotAllocated before
\* the request), buffer counts what happened to the raw buffer up to the
\* return, len is the length and capacity the returned vector was built
\* with.
NotAllocated == <<>>
\* Heap.alloc was not reached, or returned Err.
NoBuffer == [allocs |-> 0, deallocs |-> 0, transfers |-> 0]
\* Heap.alloc(layout), then Heap.dealloc(ptr, layout).
Deallocated == [allocs |-> 1, deallocs |-> 1, transfers |-> 0]
\* Heap.alloc(layout), then Vec::from_raw_parts(ptr, ..).
OwnedByVec == [allocs |-> 1, deallocs |-> 0, transfers |-> 1]
PodOk(v, p, size, len) ==
    [ok |-> TRUE, val |-> v, pos |-> p, allocated |-> size, buffer |-> OwnedByVec,
     len |-> len]
PodErr(e, p, size, buffer) ==
    [ok |-> FALSE, err |-> e, pos |-> p, allocated |-> size, buffer |-> buffer]

\* Mutant: the error is returned with the buffer still allocated.
ReadFailed_leak(e, p, size) ==
    PodErr(e, p, size, [allocs |-> 1, deallocs |-> 0, transfers |-> 0])
\* Err(err) => { unsafe { Heap.dealloc(ptr, layout); } Err(err) }
ReadFailed(e, p, size) == PodErr(e, p, size, Deallocated)

\* The else branch of impl<T: Deserialize + ReprC> Deserialize for Vec<T>.
deserialize_vec_fast(n, d) ==
    LET align == align_of(n, d.target)
        elem_size == size_of(n, d.target)
        len == read_exact(d, 8)
        num_elems == SubSeq(len.val, 1, d.target.word)
        overflow == MulCarry(num_elems, elem_size, 0) # 0
        num_bytes == MulDigits(num_elems, elem_size, 0)
    IN  IF ~len.ok THEN PodErr(len.err, len.pos, NotAllocated, NoBuffer)
        ELSE IF overflow /\ d.target.overflow_checks
        THEN PodErr("fatal", len.pos, NotAllocated, NoBuffer)
        ELSE IF LayoutIsNone(num_bytes, align)
        THEN PodErr("MemoryAllocationLayoutError", len.pos, NotAllocated, NoBuffer)
        ELSE IF (IF IsZero(num_bytes) THEN d.env.zero_alloc_null ELSE d.env.alloc_fails)
        THEN PodErr("OutOfMemory", len.pos, num_bytes, NoBuffer)
        ELSE IF ~IsSmall(num_bytes)
        THEN ReadFailed("IOError", Len(d.bytes), num_bytes)
        ELSE LET slice == read_exact(At(d, len.pos), UnsignedOf(num_bytes))
             IN  IF ~slice.ok
                 THEN ReadFailed(slice.err, slice.pos, num_bytes)
                 ELSE PodOk(from_raw_parts(n, slice.val, num_elems, d.target),
                            slice.pos, num_bytes, num_elems)

RECURSIVE deserialize(_, _)
RECURSIVE deserialize_items_loop(_, _, _, _)
RECURSIVE deserialize_pairs_loop(_, _, _, _)

\* for _ in 0..l { ret.push(T::deserialize(deserializer)?); }
deserialize_items_loop(t, d, l, ret) ==
    IF l = 0 THEN Ok(ret, d.pos)
    ELSE LET x == deserialize(t, d)
         IN  IF ~x.ok THEN Err(x.err, x.pos)
             ELSE deserialize_items_loop(t, At(d, x.pos), l - 1, Append(ret, x.val))

regular_deserialize_vec(t, d) ==
    LET l == read_usize(d)
    IN  IF ~l.ok THEN l
        ELSE IF AllocAborts(d, l.val) THEN Err("fatal", l.pos)
        ELSE deserialize_items_loop(t, At(d, l.pos), l.val, <<>>)

\* impl<T: Deserialize + ReprC> Deserialize for Vec<T>
deserialize_vec_repr_c(t, d) ==
    IF ~repr_c_optimization_safe(t.name, d.file_version)
    THEN regular_deserialize_vec(t, d)
    ELSE deserialize_vec_fast(t.name, d)

\* HashMap::insert: the new value replaces the one stored under an equal key.
insert(ret, key, value) ==
    {e \in ret : e.key # key} \cup {[key |-> key, value |-> value]}

\* for _ in 0..l { ret.insert(K::deserialize(d)?, V::deserialize(d)?); }
deserialize_pairs_loop(t, d, l, ret) ==
    IF l = 0 THEN Ok(ret, d.pos)
    ELSE LET key == deserialize(t.key, d)
         IN  IF ~key.ok THEN Err(key.err, key.pos)
             ELSE LET value == deserialize(t.value, At(d, key.pos))
                  IN  IF ~value.ok THEN Err(value.err, value.pos)
                      ELSE deserialize_pairs_loop(t, At(d, value.pos), l - 1,
                                                  insert(ret, key.val, value.val))

\* impl Deserialize for HashMap<K, V>
deserialize_hashmap(t, d) ==
    LET l == read_usize(d)
    IN  IF ~l.ok THEN l
        ELSE IF AllocAborts(d, l.val) THEN Err("fatal", l.pos)
        ELSE deserialize_pairs_loop(t, At(d, l.pos), l.val, {})

\* Mutant: the placeholder is returned with nothing read.
deserialize_removed_nothing_read(t, d) == Ok(Removed_new, d.pos)
\* impl Deserialize for Removed<T>
deserialize_removed(t, d) ==
    LET x == deserialize(t.inner, d)
    IN  IF ~x.ok THEN Err(x.err, x.pos) ELSE Ok(Removed_new, x.pos)

\* impl Deserialize for the schema meta-types
deserialize_meta(n, d) ==
    CASE n = "Schema" -> deserialize_schema(d)
      [] n = "Field" -> deserialize_field(d)
      [] n = "Variant" -> deserialize_variant(d)
      [] n = "SchemaStruct" -> deserialize_schema_struct(d)
      [] n = "SchemaEnum" -> deserialize_schema_enum(d)
      [] n = "SchemaPrimitive" -> deserialize_schema_primitive(d)

\* T::deserialize(deserializer)
deserialize(t, d) ==
    CASE t.k = "int" -> deserialize_int(t.name, d)
      [] t.k = "String" -> read_string(d)
      [] t.k = "Vec" ->
            IF IsReprC(t.elem) THEN deserialize_vec_repr_c(t.elem, d)
            ELSE regular_deserialize_vec(t.elem, d)
      [] t.k = "HashMap" -> deserialize_hashmap(t, d)
      [] t.k = "Removed" -> deserialize_removed(t, d)
      [] t.k = "meta" -> deserialize_meta(t.name, d)

\* ------------------------------------------------------------------------
\* State.
\* ------------------------------------------------------------------------
VARIABLES
    target,         \* the build the program runs as
    ty,             \* T of save::<T>
    data,           \* the value saved
    version,        \* the version passed to save
    with_schema,    \* save (TRUE) or save_noschema (FALSE)
    stream,         \* the bytes the writer has received
    sink,           \* whether and after how many bytes the writer fails
    header,         \* the schema the stream's header was written from
    save_pc,        \* where save_impl stands
    save_result,    \* what save_impl returned, or Pending
    source,         \* the bytes the reader delivers before it fails
    load_ty,        \* T of load::<T>
    memory_version, \* the version passed to load
    fetch_schema,   \* load (TRUE) or load_noschema (FALSE)
    env,            \* the allocator's behaviour during the load
    load_pc,        \* where load_impl stands
    pos,            \* bytes the reader has handed out
    file_version,   \* file_ver
    file_schema,    \* the schema decoded from the stream
    memory_schema,  \* T::schema(file_ver)
    schema_version, \* the version T::schema was called with
    deserialized,   \* whether T::deserialize was called
    result,         \* what load_impl returned, or Pending
    diff_a,         \* first argument of a diff_schema call
    diff_b,         \* second argument
    diff_ty,        \* the type and version both arguments were derived from, if any
    diff_out        \* the call's result, or Pending before the call

save_vars == <<target, ty, data, version, with_schema, stream, sink, header,
               save_pc, save_result>>
load_vars == <<source, load_ty, memory_version, fetch_schema, env, load_pc, pos,
               file_version, file_schema, memory_schema, schema_version,
               deserialized, result>>
diff_vars == <<diff_a, diff_b, diff_ty, diff_out>>
vars == <<save_vars, load_vars, diff_vars>>

Pending == [pending |-> TRUE]
NoType == [k |-> "none"]

\* ------------------------------------------------------------------------
\* Bounded sets of inputs.
\* ------------------------------------------------------------------------
SeqsUpTo(S, n) == UNION {[1..k -> S] : k \in 0..n}

P32 == Schema_Primitive("schema_u32")
P64 == Schema_Primitive("schema_u64")

DiffLeaves == {P32, P64, Schema_Undefined}
DiffFields == {Field(n, v) : n \in {Str_x, Str_y}, v \in DiffLeaves}
DiffStructs ==
    {Schema_Struct(d, fs) : d \in {Str_A, Str_B}, fs \in SeqsUpTo(DiffFields, MaxFields)}
DiffVariants ==
    {Variant(n, d, fs) : n \in {Str_x, Str_y}, d \in {0, 1},
                         fs \in {<<>>, <<Field(Str_x, P32)>>}}
DiffEnums == {Schema_Enum(vs) : vs \in SeqsUpTo(DiffVariants, MaxVariants)}
DiffNested ==
    {Schema_Vector(s) : s \in DiffLeaves}
    \cup {Schema_Vector(Schema_Vector(s)) : s \in DiffLeaves}
    \cup {Schema_Vector(Schema_Struct(Str_A, <<Field(Str_x, s)>>)) : s \in DiffLeaves}
    \cup {Schema_Struct(Str_A, <<Field(Str_x, Schema_Struct(d, <<Field(Str_y, s)>>))>>) :
            d \in {Str_A, Str_B}, s \in DiffLeaves}
    \cup {Schema_Enum(<<Variant(Str_x, 0, <<Field(Str_y, Schema_Vector(s))>>)>>) :
            s \in DiffLeaves}
SchemaSet ==
    {Schema_Primitive(p) : p \in SchemaPrimitiveSet} \cup {Schema_Undefined}
    \cup DiffStructs \cup DiffEnums \cup DiffNested

\* Types whose schema is derived in the diff specification.
SchemaTypes ==
    {T_Int(n) : n \in IntNames} \cup {T_String} \cup {T_Meta(n) : n \in MetaNames}
    \cup {T_Vec(T_Int("u8")), T_Vec(T_String), T_Vec(T_Vec(T_Int("u16"))),
          T_Vec(T_Meta("Schema")),
          T_HashMap(T_String, T_Int("u32")),
          T_HashMap(T_Int("u8"), T_Vec(T_Int("i64"))),
          T_HashMap(T_String, T_Meta("Field")),
          T_Removed(T_Int("u32")), T_Removed(T_Meta("Variant")),
          T_Vec(T_Removed(T_String))}

\* Values of the integer types.
IntValues(n) ==
    CASE n = "u8" -> {0, 255}
      [] n = "i8" -> {-128, 127}
      [] n = "u16" -> {1, 65535}
      [] n = "i16" -> {-32768, 258}
      [] n = "u32" -> {0, 16909060}
      [] n = "i32" -> {-1, 16909060}
      [] n = "u64" -> {1, 2147483647}
      [] n = "i64" -> {-2, 2147483647}
      [] n = "usize" -> {1, 16909060}
      [] n = "isize" -> {-1, 16909060}

StringValues == {<<>>, <<97>>, <<104, 195, 169>>}

\* The maps with at most n entries, keys in K and values in V.
MapsUpTo(K, V, n) ==
    {m \in SUBSET [key : K, value : V] :
        /\ Cardinality(m) <= n
        /\ \A e, f \in m : e.key = f.key => e = f}

RECURSIVE Values(_, _)
\* Values of a type, its containers holding at most n items.
Values(t, n) ==
    CASE t.k = "int" -> IntValues(t.name)
      [] t.k = "String" -> StringValues
      [] t.k = "Vec" -> SeqsUpTo(Values(t.elem, n - 1), n)
      [] t.k = "HashMap" -> MapsUpTo(Values(t.key, n - 1), Values(t.value, n - 1), n)
      [] t.k = "Removed" -> {Removed_new}
      [] t.k = "meta" -> {P32, Schema_Undefined,
                          Schema_Vector(Schema_Struct(Str_A, <<Field(Str_x, P64)>>)),
                          Schema_Enum(<<Variant(Str_y, 1, <<>>)>>)}

\* Types saved and loaded in the session specification.
SaveTypes ==
    {T_Int(n) : n \in IntNames} \cup {T_String}
    \cup {T_Vec(T_Int(n)) : n \in {"u8", "i16", "u32", "usize", "isize"}}
    \cup {T_Vec(T_String), T_Vec(T_Vec(T_Int("u8"))),
          T_HashMap(T_String, T_Int("u32")),
          T_HashMap(T_Int("u8"), T_Vec(T_Int("u16"))),
          T_Meta("Schema"), T_Removed(T_Int("u32"))}

\* Types a saved T is loaded as: T itself, the placeholder of a removed T,
\* and, behind the schema guard, types of another shape.
LoadTypes(t, guarded) ==
    {t} \cup (IF t.k = "Removed" THEN {t.inner} ELSE {T_Removed(t)})
    \cup (IF guarded
          THEN {T_Int("u64"), T_Vec(T_Int("u8")), T_Meta("Schema")}
          ELSE {})

NoSchema == [kind |-> "none"]

\* A writer that accepts every byte.
Reliable == [fails |-> FALSE, after |-> 0]

SessionIdle ==
    /\ target = [word |-> 8, big_endian |-> FALSE, overflow_checks |-> FALSE]
    /\ ty = NoType /\ data = 0 /\ version = 0 /\ with_schema = FALSE
    /\ stream = <<>> /\ sink = Reliable /\ header = NoSchema
    /\ save_pc = "idle" /\ save_result = Pending
    /\ source = <<>> /\ load_ty = NoType /\ memory_version = 0 /\ fetch_schema = FALSE
    /\ env = [alloc_fails |-> FALSE, zero_alloc_null |-> FALSE]
    /\ load_pc = "idle" /\ pos = 0 /\ file_version = 0
    /\ file_schema = NoSchema /\ memory_schema = NoSchema /\ schema_version = 0
    /\ deserialized = FALSE /\ result = Pending

DiffIdle ==
    /\ diff_a = NoSchema /\ diff_b = NoSchema /\ diff_ty = NoType
    /\ diff_out = Pending

\* ------------------------------------------------------------------------
\* The session specification: one save_impl, then one load_impl of the
\* stream it wrote.
\* ------------------------------------------------------------------------
Serializer_new_raw(t) == [version |-> 0, target |-> t]
Serializer(v, t) == [version |-> v, target |-> t]
Deserializer_new_raw(bytes, p, t, e) ==
    [bytes |-> bytes, pos |-> p, file_version |-> 0, memory_version |-> 0,
     target |-> t, env |-> e]
Deserializer(bytes, p, file_ver, mem_ver, t, e) ==
    [bytes |-> bytes, pos |-> p, file_version |-> file_ver,
     memory_version |-> mem_ver, target |-> t, env |-> e]

Init ==
    /\ DiffIdle
    /\ target \in TargetSet
    /\ ty \in SaveTypes
    /\ data \in Values(ty, MaxLen)
    /\ version \in 0..MaxVersion
    /\ with_schema \in BOOLEAN
    /\ stream = <<>> /\ sink = Reliable /\ header = NoSchema
    /\ save_pc = "version" /\ save_result = Pending
    /\ source = <<>> /\ load_ty = NoType /\ memory_version = 0 /\ fetch_schema = FALSE
    /\ env = [alloc_fails |-> FALSE, zero_alloc_null |-> FALSE]
    /\ load_pc = "idle" /\ pos = 0 /\ file_version = 0
    /\ file_schema = NoSchema /\ memory_schema = NoSchema /\ schema_version = 0
    /\ deserialized = FALSE /\ result = Pending

\* Write::write_all(bytes) on a sink that has taken the bytes of s: the
\* sink takes what it has room for and then fails.
write_all(s, bytes, snk) ==
    IF snk.fails /\ Len(s) + Len(bytes) > snk.after
    THEN [ok |-> FALSE, stream |-> s \o SubSeq(bytes, 1, snk.after - Len(s))]
    ELSE [ok |-> TRUE, stream |-> s \o bytes]

\* .unwrap() on the Err of the version write.
VersionWriteFailed(at) == Err("fatal", at)

\* writer.write_u32::<LittleEndian>(version).unwrap();
SaveWriteVersion ==
    /\ save_pc = "version"
    /\ LET w == write_all(stream, write_u32(version), sink)
       IN  /\ stream' = w.stream
           /\ IF w.ok
              THEN /\ save_pc' = IF with_schema THEN "schema" ELSE "payload"
                   /\ UNCHANGED save_result
              ELSE /\ save_pc' = "done"
                   /\ save_result' = VersionWriteFailed(Len(w.stream))
    /\ UNCHANGED <<target, ty, data, version, with_schema, sink, header,
                   load_vars, diff_vars>>

\* if with_schema { T::schema(version).serialize(&mut Serializer::new_raw(writer))? }
SaveWriteSchema ==
    /\ save_pc = "schema"
    /\ header' = schema(ty, version)
    /\ \E bytes \in serialize(T_Meta("Schema"), schema(ty, version),
                              Serializer_new_raw(target)) :
          LET w == write_all(stream, bytes, sink)
          IN  /\ stream' = w.stream
              /\ IF w.ok
                 THEN save_pc' = "payload" /\ UNCHANGED save_result
                 ELSE /\ save_pc' = "done"
                      /\ save_result' = Err("IOError", Len(w.stream))
    /\ UNCHANGED <<target, ty, data, version, with_schema, sink,
                   load_vars, diff_vars>>

\* Ok(data.serialize(&mut Serializer { writer, version })?)
SaveSerialize ==
    /\ save_pc = "payload"
    /\ save_pc' = "done"
    /\ IF ty.k = "Removed"
       THEN save_result' = Err("fatal", Len(stream)) /\ stream' = stream
       ELSE \E bytes \in serialize(ty, data, Serializer(version, target)) :
               LET w == write_all(stream, bytes, sink)
               IN  /\ stream' = w.stream
                   /\ save_result' = IF w.ok THEN Ok("unit", Len(w.stream))
                                     ELSE Err("IOError", Len(w.stream))
    /\ UNCHANGED <<target, ty, data, version, with_schema, sink, header,
                   load_vars, diff_vars>>

\* A caller hands the stream to load or load_noschema.
StartLoad ==
    /\ save_pc = "done" /\ save_result.ok
    /\ load_pc = "idle"
    /\ load_pc' = "version"
    /\ source' = stream
    /\ fetch_schema' = with_schema
    /\ load_ty' \in LoadTypes(ty, with_schema)
    /\ memory_version' \in 0..MaxVersion
    /\ env' \in EnvSet
    /\ UNCHANGED <<save_vars, pos, file_version, file_schema, memory_schema,
                   schema_version, deserialized, result, diff_vars>>

\* Mutant: a file of the memory version is rejected too.
NewerFile_or_same(file_ver, mem_ver) == file_ver >= mem_ver
\* if file_ver > version
NewerFile(file_ver, mem_ver) == file_ver > mem_ver

\* let file_ver = reader.read_u32::<LittleEndian>()?;
\* if file_ver > version { panic!(..) }
LoadReadVersion ==
    /\ load_pc = "version"
    /\ LET file_ver == read_u32(Deserializer_new_raw(source, pos, target, env))
       IN  /\ pos' = file_ver.pos
           /\ IF ~file_ver.ok
              THEN /\ result' = file_ver
                   /\ load_pc' = "done"
                   /\ UNCHANGED file_version
              ELSE /\ file_version' = file_ver.val
                   /\ IF NewerFile(file_ver.val, memory_version)
                      THEN /\ result' = Err("fatal", file_ver.pos)
                           /\ load_pc' = "done"
                      ELSE /\ load_pc' = IF fetch_schema THEN "schema" ELSE "payload"
                           /\ UNCHANGED result
    /\ UNCHANGED <<save_vars, source, load_ty, memory_version, fetch_schema, env,
                   file_schema, memory_schema, schema_version, deserialized,
                   diff_vars>>

IncompatibleSchema(file_ver, err) ==
    [kind |-> "IncompatibleSchema", version |-> file_ver, err |-> err]

\* The version the in-memory schema is derived at.
SchemaVersion(file_ver, mem_ver) == file_ver

\* Mutant: the result of the diff is ignored.
GuardPasses_always(diff) == TRUE
\* Whether load_impl goes on to T::deserialize after the diff.
GuardPasses(diff) == ~diff.some

\* if fetch_schema { .. diff_schema(&file_schema, &memory_schema, ".") .. }
LoadFetchSchema ==
    /\ load_pc = "schema"
    /\ LET mem == schema(load_ty, SchemaVersion(file_version, memory_version))
           file == deserialize(T_Meta("Schema"),
                               Deserializer_new_raw(source, pos, target, env))
       IN  /\ memory_schema' = mem
           /\ schema_version' = SchemaVersion(file_version, memory_version)
           /\ pos' = file.pos
           /\ IF ~file.ok
              THEN /\ result' = Err(file.err, file.pos)
                   /\ load_pc' = "done"
                   /\ UNCHANGED file_schema
              ELSE /\ file_schema' = file.val
                   /\ LET diff == diff_schema(file.val, mem, Str_dot)
                      IN  IF GuardPasses(diff)
                          THEN load_pc' = "payload" /\ UNCHANGED result
                          ELSE /\ result' = Err(IncompatibleSchema(file_version, diff.msg),
                                                file.pos)
                               /\ load_pc' = "done"
    /\ UNCHANGED <<save_vars, source, load_ty, memory_version, fetch_schema, env,
                   file_version, deserialized, diff_vars>>

\* Ok(T::deserialize(&mut Deserializer { reader, file_version, memory_version })?)
LoadDeserialize ==
    /\ load_pc = "payload"
    /\ LET r == deserialize(load_ty,
                    Deserializer(source, pos, file_version, memory_version, target,
                                 env))
       IN  /\ result' = r
           /\ pos' = r.pos
    /\ deserialized' = TRUE
    /\ load_pc' = "done"
    /\ UNCHANGED <<save_vars, source, load_ty, memory_version, fetch_schema, env,
                   file_version, file_schema, memory_schema, schema_version,
                   diff_vars>>

Next ==
    \/ SaveWriteVersion
    \/ SaveWriteSchema
    \/ SaveSerialize
    \/ StartLoad
    \/ LoadReadVersion
    \/ LoadFetchSchema
    \/ LoadDeserialize

Spec == Init /\ [][Next]_vars

\* ------------------------------------------------------------------------
\* The diff specification: diff_schema applied to a pair of schemas, either
\* arbitrary or both derived from one type at one version.
\* ------------------------------------------------------------------------
InitDiff ==
    /\ SessionIdle
    /\ diff_out = Pending
    /\ \/ /\ diff_ty = NoType
          /\ diff_a \in SchemaSet
          /\ diff_b \in SchemaSet
       \/ /\ diff_ty \in [t : SchemaTypes, version : 0..MaxVersion]
          /\ diff_a = schema(diff_ty.t, diff_ty.version)
          /\ diff_b = schema(diff_ty.t, diff_ty.version)

CallDiffSchema ==
    /\ diff_out = Pending
    /\ diff_out' = diff_schema(diff_a, diff_b, Str_dot)
    /\ UNCHANGED <<diff_a, diff_b, diff_ty, save_vars, load_vars>>

NextDiff == CallDiffSchema

SpecDiff == InitDiff /\ [][NextDiff]_vars

\* ------------------------------------------------------------------------
\* The forged-stream specification: Vec::<T>::deserialize for an integer T
\* applied to a stream an adversary wrote: any stored element count, then
\* up to MaxPayload bytes.
\* ------------------------------------------------------------------------
\* Stored element counts, as the 8 bytes on the wire: 0, 1, 2, 2^29 + 1,
\* 2^32 + 1, 2^61 + 1, 2^63 and 2^64 - 1.
ForgedCounts ==
    {<<0, 0, 0, 0, 0, 0, 0, 0>>, <<1, 0, 0, 0, 0, 0, 0, 0>>,
     <<2, 0, 0, 0, 0, 0, 0, 0>>, <<1, 0, 0, 32, 0, 0, 0, 0>>,
     <<1, 0, 0, 0, 1, 0, 0, 0>>, <<1, 0, 0, 0, 0, 0, 0, 32>>,
     <<0, 0, 0, 0, 0, 0, 0, 128>>,
     <<255, 255, 255, 255, 255, 255, 255, 255>>}

ForgedStreams ==
    {c \o [i \in 1..k |-> 0] : c \in ForgedCounts, k \in 0..MaxPayload}
    \cup {c \o [i \in 1..k |-> 7] : c \in ForgedCounts, k \in {1, 2, 4}}
    \cup {<<1, 0, 0>>}

InitPod ==
    /\ DiffIdle
    /\ target \in TargetSet
    /\ ty = NoType /\ data = 0 /\ version = 0 /\ with_schema = FALSE
    /\ save_pc = "idle" /\ save_result = Pending
    /\ stream = <<>> /\ sink = Reliable /\ header = NoSchema
    /\ source \in ForgedStreams
    /\ load_ty \in {T_Vec(T_Int(n)) : n \in IntNames}
    /\ memory_version = 0 /\ fetch_schema = FALSE
    /\ env \in EnvSet
    /\ load_pc = "payload" /\ pos = 0 /\ file_version = 0
    /\ file_schema = NoSchema /\ memory_schema = NoSchema /\ schema_version = 0
    /\ deserialized = FALSE /\ result = Pending

NextPod == LoadDeserialize

SpecPod == InitPod /\ [][NextPod]_vars

\* ------------------------------------------------------------------------
\* The failing-I/O specification: a save into a writer that may fail after
\* any number of bytes, then a load from a reader that delivers the whole
\* stream or any proper prefix of it.
\* ------------------------------------------------------------------------
IOTypes ==
    {T_Int("u8"), T_String, T_Vec(T_Int("u16")), T_Vec(T_String),
     T_HashMap(T_Int("u8"), T_String)}

SinkSet == {Reliable} \cup {[fails |-> TRUE, after |-> n] : n \in 0..MaxSink}

InitIO ==
    /\ DiffIdle
    /\ target \in {t \in TargetSet : ~t.overflow_checks}
    /\ ty \in IOTypes
    /\ data \in Values(ty, MaxLen)
    /\ version \in 0..MaxVersion
    /\ with_schema \in BOOLEAN
    /\ stream = <<>> /\ sink \in SinkSet /\ header = NoSchema
    /\ save_pc = "version" /\ save_result = Pending
    /\ source = <<>> /\ load_ty = NoType
    /\ memory_version = 0 /\ fetch_schema = FALSE
    /\ env = [alloc_fails |-> FALSE, zero_alloc_null |-> FALSE]
    /\ load_pc = "idle" /\ pos = 0 /\ file_version = 0
    /\ file_schema = NoSchema /\ memory_schema = NoSchema /\ schema_version = 0
    /\ deserialized = FALSE /\ result = Pending

\* A caller hands load or load_noschema a reader that fails, or ends, after
\* a proper prefix of the stream.
StartLoadTruncated ==
    /\ save_pc = "done" /\ save_result.ok
    /\ load_pc = "idle"
    /\ load_pc' = "version"
    /\ \E k \in 0..(Len(stream) - 1) : source' = SubSeq(stream, 1, k)
    /\ fetch_schema' = with_schema
    /\ load_ty' = ty
    /\ memory_version' \in 0..MaxVersion
    /\ env' \in EnvSet
    /\ UNCHANGED <<save_vars, pos, file_version, file_schema, memory_schema,
                   schema_version, deserialized, result, diff_vars>>

NextIO ==
    \/ SaveWriteVersion
    \/ SaveWriteSchema
    \/ SaveSerialize
    \/ StartLoad
    \/ StartLoadTruncated
    \/ LoadReadVersion
    \/ LoadFetchSchema
    \/ LoadDeserialize

SpecIO == InitIO /\ [][NextIO]_vars

\* ------------------------------------------------------------------------
\* The header specification: a load of a stream whose schema header was
\* written from any schema of SchemaSet, delivered intact or with one schema
\* tag or primitive discriminator overwritten.
\* ------------------------------------------------------------------------
Shift(sites, n) == {[at |-> c.at + n, kind |-> c.kind] : c \in sites}

RECURSIVE TagSites(_)
\* Where, in the bytes serialize_schema writes for s, the u16 schema tags
\* and primitive discriminators from the root down to its first leaf lie.
TagSites(s) ==
    {[at |-> 0, kind |-> "tag"]} \cup
    CASE s.kind = "Undefined" -> {}
      [] s.kind = "Primitive" -> {[at |-> 2, kind |-> "primitive"]}
      [] s.kind = "Vector" -> Shift(TagSites(s.elem), 2)
      [] s.kind = "Struct" ->
            IF s.fields = <<>> THEN {}
            ELSE Shift(TagSites(s.fields[1].value),
                       2 + 8 + Len(s.dbg_name) + 8 + 8 + Len(s.fields[1].name))
      [] s.kind = "Enum" ->
            IF s.variants = <<>> THEN {}
            ELSE IF s.variants[1].fields = <<>> THEN {}
            ELSE Shift(TagSites(s.variants[1].fields[1].value),
                       2 + 8 + 8 + Len(s.variants[1].name) + 2 + 8
                         + 8 + Len(s.variants[1].fields[1].name))

\* The bytes with the u16 at offset at replaced by v.
Overwrite(bytes, at, v) ==
    [i \in DOMAIN bytes |->
        IF i = at + 1 THEN v % 256
        ELSE IF i = at + 2 THEN v \div 256
        ELSE bytes[i]]

\* Values written over a tag or a discriminator: 6 is a primitive
\* discriminator but no schema tag, the others are neither.
OverwriteValues == {0, 6, 12, 99}

ValidAt(kind, v) ==
    IF kind = "tag" THEN v \in 1..5 ELSE v \in DOMAIN SchemaPrimitive

WireLoadTypes == {T_Int("u32"), T_Vec(T_Int("u32"))}

InitWire ==
    /\ DiffIdle
    /\ target \in {t \in TargetSet : ~t.overflow_checks /\ ~t.big_endian}
    /\ ty = NoType
    /\ load_ty \in WireLoadTypes
    /\ data \in Values(load_ty, MaxLen)
    /\ version = 0 /\ with_schema = TRUE
    /\ sink = Reliable
    /\ header \in SchemaSet
    /\ stream \in {write_u32(version) \o serialize_schema(header) \o payload :
                    payload \in serialize(load_ty, data, Serializer(version, target))}
    /\ save_pc = "done" /\ save_result = Ok("unit", Len(stream))
    /\ source \in {stream}
            \cup {Overwrite(stream, 4 + c.at, v) :
                    c \in TagSites(header), v \in OverwriteValues}
    /\ memory_version \in 0..MaxVersion /\ fetch_schema = TRUE
    /\ env \in {e \in EnvSet : ~e.zero_alloc_null}
    /\ load_pc = "version" /\ pos = 0 /\ file_version = 0
    /\ file_schema = NoSchema /\ memory_schema = NoSchema /\ schema_version = 0
    /\ deserialized = FALSE /\ result = Pending

NextWire ==
    \/ LoadReadVersion
    \/ LoadFetchSchema
    \/ LoadDeserialize

SpecWire == InitWire /\ [][NextWire]_vars

\* ------------------------------------------------------------------------
\* Properties of diff_schema (checked under SpecDiff).
\* ------------------------------------------------------------------------
RECURSIVE HasUndefined(_)
RECURSIVE FieldsHaveUndefined(_)
FieldsHaveUndefined(fs) ==
    \E i \in DOMAIN fs : HasUndefined(fs[i].value)
\* Whether a schema has an Undefined node anywhere.
HasUndefined(s) ==
    CASE s.kind = "Undefined" -> TRUE
      [] s.kind = "Primitive" -> FALSE
      [] s.kind = "Vector" -> HasUndefined(s.elem)
      [] s.kind = "Struct" -> FieldsHaveUndefined(s.fields)
      [] s.kind = "Enum" ->
            \E i \in DOMAIN s.variants : FieldsHaveUndefined(s.variants[i].fields)

RECURSIVE EraseDbgName(_)
RECURSIVE EraseDbgNameFields(_)
EraseDbgNameFields(fs) ==
    [i \in DOMAIN fs |-> Field(fs[i].name, EraseDbgName(fs[i].value))]
\* The schema with the debug name of every struct erased.
EraseDbgName(s) ==
    CASE s.kind \in {"Undefined", "Primitive"} -> s
      [] s.kind = "Vector" -> Schema_Vector(EraseDbgName(s.elem))
      [] s.kind = "Struct" -> Schema_Struct(Str_empty, EraseDbgNameFields(s.fields))
      [] s.kind = "Enum" ->
            Schema_Enum([i \in DOMAIN s.variants |->
                Variant(s.variants[i].name, s.variants[i].discriminator,
                        EraseDbgNameFields(s.variants[i].fields))])

RECURSIVE HasMeta(_)
\* Whether a type is, or contains, one of the schema meta-types.
HasMeta(t) ==
    CASE t.k = "meta" -> TRUE
      [] t.k \in {"int", "String"} -> FALSE
      [] t.k = "Vec" -> HasMeta(t.elem)
      [] t.k = "Removed" -> HasMeta(t.inner)
      [] t.k = "HashMap" -> HasMeta(t.key) \/ HasMeta(t.value)

DiffDone == diff_out # Pending

UndefinedAt(path) == Some([text |-> "Undefined schema encountered", path |-> path])

\* C4 as stated: whenever either argument of diff_schema is Undefined, the
\* result is the "Undefined schema encountered" error at the current path.
C4_UndefinedEitherSide ==
    (DiffDone /\ (diff_a.kind = "Undefined" \/ diff_b.kind = "Undefined"))
        => diff_out = UndefinedAt(Str_dot)

\* C4 as amended: whenever either argument of diff_schema is Undefined the
\* result is Some message, never None; it is the "Undefined schema
\* encountered" error at the current path when the first argument is
\* Undefined, and the kind-mismatch message naming the second argument's
\* kind as "undefined" when only the second argument is.
C4_UndefinedFirstOrKindMismatch ==
    (DiffDone /\ (diff_a.kind = "Undefined" \/ diff_b.kind = "Undefined")) =>
        IF diff_a.kind = "Undefined"
        THEN diff_out = UndefinedAt(Str_dot)
        ELSE diff_out = Some([text |-> "schema kind", path |-> Str_dot,
                              in_memory |-> KindName(diff_a), file |-> "undefined"])

C4_Witness ==
    /\ DiffDone
    /\ diff_a.kind = "Enum"
    /\ diff_b.kind = "Undefined"
    /\ diff_out.some

\* ------------------------------------------------------------------------
\* Properties of save_impl and load_impl (checked under Spec).
\* ------------------------------------------------------------------------
LoadDone == load_pc = "done"
SaveDone == save_pc = "done" /\ save_result.ok

\* The little-endian bytes of the version, least significant first.
VersionBytes ==
    <<version % 256, (version \div 256) % 256, (version \div 65536) % 256,
      (version \div 16777216) % 256>>

\* The encodings of T::schema(V) by a serializer of version 0.
SchemaBytes ==
    serialize(T_Meta("Schema"), schema(ty, version), [version |-> 0, target |-> target])

\* The encodings of the value by a serializer of version V.
PayloadBytes == serialize(ty, data, [version |-> version, target |-> target])

\* C1 as stated: saving x at version V and loading the stream as the same
\* type with memory version V yields a value equal to x, with and without
\* the schema header (the allocator granting every request).
C1_RoundTrip ==
    (LoadDone /\ load_ty = ty /\ ~HasMeta(ty) /\ memory_version = version
        /\ ~env.alloc_fails)
        => (result.ok /\ result.val = data)

\* C5: a load whose stored version is greater than the memory version ends
\* fatally after reading exactly the 4 version bytes, with no schema or
\* payload byte read; with a stored version at most the memory version the
\* version check lets the load go on to the schema or the payload.
C5_NewerFileRejection ==
    /\ [][load_pc = "version" =>
            /\ pos' = 4
            /\ file_version' = version
            /\ IF version > memory_version
               THEN /\ load_pc' = "done"
                    /\ result' = Err("fatal", 4)
               ELSE /\ load_pc' = (IF fetch_schema THEN "schema" ELSE "payload")
                    /\ result' = Pending]_vars
    /\ []((LoadDone /\ file_version > memory_version) =>
            /\ pos = 4
            /\ result = Err("fatal", 4)
            /\ file_schema = NoSchema
            /\ ~deserialized)

C5_Witness ==
    /\ LoadDone /\ fetch_schema
    /\ file_version > memory_version
    /\ pos = 4 /\ Len(stream) > 4

\* C6: on a load with the schema check, the stored schema is compared with
\* T::schema(V_file); when diff_schema reports a difference the load returns
\* IncompatibleSchema with T::deserialize never called and no payload byte
\* read; T::deserialize runs only when the diff is None.
C6_SchemaGuard ==
    (fetch_schema /\ file_schema # NoSchema) =>
        /\ schema_version = file_version
        /\ memory_schema = schema(load_ty, file_version)
        /\ LET diff == diff_schema(file_schema, memory_schema, Str_dot)
           IN  IF diff.some
               THEN /\ LoadDone
                    /\ ~deserialized
                    /\ result = Err(IncompatibleSchema(file_version, diff.msg), pos)
                    /\ \A b \in SchemaBytes : pos = 4 + Len(b)
               ELSE /\ load_pc = "payload" \/ deserialized
                    /\ deserialized => LoadDone

C6_Witness ==
    /\ fetch_schema /\ file_schema # NoSchema
    /\ file_version < memory_version
    /\ diff_schema(file_schema, memory_schema, Str_dot).some
    /\ LoadDone /\ ~result.ok /\ pos < Len(stream)

\* C7: save writes the version as the first 4 bytes, little-endian, then,
\* only with the schema enabled, the encoding of T::schema(V) by a
\* version-0 serializer, then the payload, and nothing else; without the
\* schema the payload starts at offset 4.
C7_FramingOrder ==
    /\ save_pc = "version" => stream = <<>>
    /\ save_pc = "schema" => with_schema /\ stream = VersionBytes
    /\ save_pc = "payload" =>
            \E sb \in (IF with_schema THEN SchemaBytes ELSE {<<>>}) :
                stream = VersionBytes \o sb
    /\ SaveDone =>
            \E sb \in (IF with_schema THEN SchemaBytes ELSE {<<>>}), pb \in PayloadBytes :
                stream = VersionBytes \o sb \o pb

C7_Witness ==
    /\ SaveDone /\ with_schema /\ version = MaxVersion
    /\ ty = T_HashMap(T_String, T_Int("u32"))
    /\ Cardinality(data) = MaxLen

\* C8 as stated: for every Vec<T> of a built-in element type T with
\* repr_c_optimization_safe(V) true, the bytes the fast path writes are the
\* bytes regular_serialize_vec writes for the same vector.
C8_PodEquivalence ==
    (SaveDone /\ ty.k = "Vec" /\ IsReprC(ty.elem)
        /\ repr_c_optimization_safe(ty.elem.name, version)) =>
        \E sb \in (IF with_schema THEN SchemaBytes ELSE {<<>>}),
           pb \in regular_serialize_vec(ty.elem, data, [version |-> version, target |-> target]) :
            stream = VersionBytes \o sb \o pb

\* C9 as stated: usize and isize elements of a sequence take exactly 8
\* bytes each on the wire whatever the word size: with a word size other
\* than 8 repr_c_optimization_safe is false for usize and isize.
C9_UsizeEightBytes ==
    (SaveDone /\ ty.k = "Vec" /\ ty.elem.k = "int"
        /\ ty.elem.name \in {"usize", "isize"}) =>
        /\ target.word # 8 => ~repr_c_optimization_safe(ty.elem.name, version)
        /\ \A pb \in PayloadBytes : Len(pb) = 8 + 8 * Len(data)

\* ------------------------------------------------------------------------
\* Properties of the fast path on a forged stream (checked under SpecPod).
\* ------------------------------------------------------------------------
\* The stored element count as the usize the decoder works with.
StoredCount == SubSeq(source, 1, target.word)

\* C10 as stated: when size_of::<T>() * num_elems overflows the machine
\* word the fast path returns MemoryAllocationLayoutError without having
\* allocated or read a buffer, and a vector it returns never has a length
\* exceeding the bytes allocated.
C10_OverflowIsLayoutError ==
    (LoadDone /\ Len(source) >= 8) =>
        /\ MulCarry(StoredCount, size_of(load_ty.elem.name, target), 0) # 0 =>
                /\ ~result.ok
                /\ result.err = "MemoryAllocationLayoutError"
                /\ result.allocated = NotAllocated
                /\ result.pos = 8
        /\ result.ok =>
                /\ MulCarry(result.len, size_of(load_ty.elem.name, target), 0) = 0
                /\ MulDigits(result.len, size_of(load_ty.elem.name, target), 0)
                        = result.allocated

\* C11: on every run of the fast-path decode the raw buffer, once allocated,
\* is either deallocated exactly once before an error is returned or handed
\* exactly once to the returned Vec on success; no error is returned with
\* the buffer still allocated, and no buffer is both freed and handed over.
C11_BufferOwnership ==
    LoadDone =>
        /\ result.buffer.allocs \in {0, 1}
        /\ result.buffer.deallocs + result.buffer.transfers = result.buffer.allocs
        /\ result.ok <=> result.buffer.transfers = 1
        /\ (~result.ok /\ result.buffer.allocs = 1) => result.buffer.deallocs = 1

C11_Witness ==
    /\ LoadDone /\ ~result.ok
    /\ result.err = "IOError"
    /\ result.buffer = Deallocated
    /\ Len(source) > 8
    /\ ~IsZero(result.allocated)

\* ------------------------------------------------------------------------
\* Properties under failing I/O (checked under SpecIO).
\* ------------------------------------------------------------------------
\* The reader ran out before the end of the stream that was saved.
Truncated == Len(source) < Len(stream)

\* C12 as stated: whenever the sink fails on a write during save (of the
\* version, the schema or the payload) or the source fails on a read during
\* load, the top-level call returns Err(IOError) and does not terminate
\* abruptly.
C12_IOFailuresRecoverable ==
    /\ (save_pc = "done" /\ ~save_result.ok) => save_result.err = "IOError"
    /\ (LoadDone /\ Truncated /\ ~env.alloc_fails
            /\ (Len(source) < 4 \/ version <= memory_version)) =>
            (~result.ok /\ result.err = "IOError")

\* C16: loading any proper prefix of the stream a save produced, cut in the
\* version, the schema header or the payload, fails and never returns a
\* value; short of a panic that comes first (a newer file, a failed
\* allocation) the failure is the IOError of the read that ran out.
C16_TruncatedRejected ==
    (LoadDone /\ Truncated) =>
        /\ ~result.ok
        /\ (~env.alloc_fails /\ (Len(source) < 4 \/ version <= memory_version)) =>
                (result.err = "IOError" /\ pos = Len(source))

C16_Witness ==
    /\ LoadDone /\ Truncated
    /\ fetch_schema /\ deserialized
    /\ ty = T_HashMap(T_Int("u8"), T_String)
    /\ Len(source) = Len(stream) - 1
    /\ ~result.ok /\ result.err = "IOError"

\* ------------------------------------------------------------------------
\* Properties of the schema header (checked under SpecWire).
\* ------------------------------------------------------------------------
\* The load is past the decoding of the header.
HeaderDecoded == load_pc \in {"payload", "done"}

\* The end of the header in the stream.
HeaderEnd == 4 + Len(serialize_schema(header))

\* C13: while a stored schema is decoded, a schema tag outside 1..5 or a
\* primitive discriminator outside 1..11 is a fatal failure raised where the
\* bad value was read; no Schema value comes out of the decoding and no
\* payload byte after the header is read.
C13_ClosedDiscriminators ==
    HeaderDecoded =>
        \A c \in TagSites(header), v \in OverwriteValues :
            (source = Overwrite(stream, 4 + c.at, v) /\ ~ValidAt(c.kind, v)
                /\ ~env.alloc_fails) =>
                /\ LoadDone
                /\ file_schema = NoSchema
                /\ ~deserialized
                /\ pos = 4 + c.at + 2 /\ pos <= HeaderEnd
                /\ result = Err("fatal", pos)

C13_Witness ==
    /\ LoadDone /\ header.kind = "Enum" /\ ~env.alloc_fails
    /\ \E c \in TagSites(header) :
            /\ c.kind = "primitive"
            /\ source = Overwrite(stream, 4 + c.at, 99)
            /\ source # stream
            /\ pos = 4 + c.at + 2
    /\ result.err = "fatal"

\* C18: Schema::deserialize applied to the bytes s.serialize wrote returns
\* a schema equal to s and consumes exactly those bytes, so that the
\* payload after the header starts at the right offset.
C18_SchemaWireRoundTrip ==
    (HeaderDecoded /\ source = stream /\ ~env.alloc_fails) =>
        /\ file_schema = header
        /\ load_pc = "payload" => pos = HeaderEnd
        /\ (LoadDone /\ ~deserialized) => pos = HeaderEnd
        /\ (LoadDone /\ deserialized) =>
                (result.ok /\ result.val = data /\ pos = Len(stream))

C18_Witness ==
    /\ HeaderDecoded /\ source = stream /\ ~env.alloc_fails
    /\ header.kind = "Enum" /\ Len(header.variants) = MaxVariants
    /\ header.variants[1].fields # <<>>
    /\ file_schema = header /\ pos = HeaderEnd

\* ------------------------------------------------------------------------
\* Properties of Removed<T> (checked under Spec).
\* ------------------------------------------------------------------------
\* C14: Removed<T>::deserialize on a source standing at an encoded T reads
\* exactly the bytes T::deserialize reads there, drops the value and
\* returns a value equal to Removed::new(); when T::deserialize fails, its
\* error is returned and no placeholder.
C14_RemovedDiscard ==
    [][(load_pc = "payload" /\ load_ty.k = "Removed") =>
        LET x == deserialize(load_ty.inner,
                    Deserializer(source, pos, file_version, memory_version, target,
                                 env))
        IN  /\ pos' = x.pos
            /\ IF x.ok
               THEN result' = Ok(Removed_new, x.pos) /\ pos' = Len(source)
               ELSE ~result'.ok /\ result'.err = x.err]_vars

C14_Witness ==
    /\ LoadDone /\ deserialized /\ fetch_schema
    /\ load_ty = T_Removed(T_HashMap(T_String, T_Int("u32")))
    /\ Cardinality(data) = MaxLen
    /\ result = Ok(Removed_new, Len(source))

\* ------------------------------------------------------------------------
\* Properties of the messages of diff_schema (checked under SpecDiff).
\* ------------------------------------------------------------------------
RECURSIVE DiffPaths(_, _, _, _)
RECURSIVE FieldDiffPaths(_, _, _, _)
\* The positions at which two field lists differ: the list itself for a
\* different length or a different name at some index, else the positions
\* inside the fields.
FieldDiffPaths(a, b, path, names) ==
    IF Len(a) # Len(b) THEN {path}
    ELSE UNION {IF a[i].name # b[i].name THEN {path}
                ELSE DiffPaths(a[i].value, b[i].value,
                               path \o Str_slash \o a[i].name, names) :
                i \in DOMAIN a}

\* The positions at which two schemas differ, each named by its path: "/"
\* and the field or variant name per field or variant entered, "/*" per
\* vector element.  names says whether a different debug name of a struct
\* counts as a difference at the struct.
DiffPaths(a, b, path, names) ==
    IF a.kind # b.kind THEN {path}
    ELSE CASE a.kind = "Undefined" -> {}
           [] a.kind = "Primitive" -> IF a.prim # b.prim THEN {path} ELSE {}
           [] a.kind = "Vector" ->
                DiffPaths(a.elem, b.elem, path \o Str_slash_star, names)
           [] a.kind = "Struct" ->
                (IF names /\ a.dbg_name # b.dbg_name THEN {path} ELSE {})
                \cup FieldDiffPaths(a.fields, b.fields, path, names)
           [] a.kind = "Enum" ->
                IF Len(a.variants) # Len(b.variants) THEN {path}
                ELSE UNION {
                    IF a.variants[i].name # b.variants[i].name
                        \/ a.variants[i].discriminator # b.variants[i].discriminator
                    THEN {path}
                    ELSE FieldDiffPaths(a.variants[i].fields, b.variants[i].fields,
                                        path \o Str_slash \o a.variants[i].name, names) :
                    i \in DOMAIN a.variants}

Least(S) == CHOOSE i \in S : \A j \in S : i <= j

\* What the first difference of two field lists, in the stated order, is:
\* the lengths, then per index the name and only then the field's schema.
\* The answer is the text and the index of the message, or the message of
\* the field's schema.
FirstFieldDifference(a, b, path) ==
    IF Len(a) # Len(b) THEN [text |-> "field count", path |-> path]
    ELSE LET D == {i \in DOMAIN a :
                     \/ a[i].name # b[i].name
                     \/ diff_schema(a[i].value, b[i].value,
                                    path \o Str_slash \o a[i].name).some}
         IN  IF D = {} THEN [text |-> "none"]
             ELSE IF a[Least(D)].name # b[Least(D)].name
             THEN [text |-> "field name", path |-> path, index |-> Least(D) - 1]
             ELSE [text |-> "inner",
                   msg |-> diff_schema(a[Least(D)].value, b[Least(D)].value,
                                       path \o Str_slash \o a[Least(D)].name).msg]

\* What the first difference of two variant lists is: the lengths, then per
\* index the name, the discriminator and the field list.
FirstVariantDifference(a, b, path) ==
    IF Len(a) # Len(b) THEN [text |-> "variant count", path |-> path]
    ELSE LET D == {i \in DOMAIN a :
                     \/ a[i].name # b[i].name
                     \/ a[i].discriminator # b[i].discriminator
                     \/ FirstFieldDifference(a[i].fields, b[i].fields,
                            path \o Str_slash \o a[i].name).text # "none"}
         IN  IF D = {} THEN [text |-> "none"]
             ELSE IF a[Least(D)].name # b[Least(D)].name
             THEN [text |-> "variant name", path |-> path, index |-> Least(D) - 1]
             ELSE IF a[Least(D)].discriminator # b[Least(D)].discriminator
             THEN [text |-> "variant discriminator", path |-> path,
                   index |-> Least(D) - 1]
             ELSE FirstFieldDifference(a[Least(D)].fields, b[Least(D)].fields,
                                       path \o Str_slash \o a[Least(D)].name)

\* The message m of diff_schema is the one the first difference d asks for.
Reports(m, d) ==
    CASE d.text = "none" -> ~m.some
      [] d.text = "inner" -> m.some /\ m.msg = d.msg
      [] d.text \in {"field count", "variant count"} ->
            m.some /\ m.msg.text = d.text /\ m.msg.path = d.path
      [] OTHER ->
            m.some /\ m.msg.text = d.text /\ m.msg.path = d.path
                   /\ m.msg.index = d.index

\* C17: diff_schema reports the first difference in a fixed order and
\* nothing after it: for two structs a different field count, else by
\* increasing index the field name and then the field's schema; for two
\* enums a different variant count, else by increasing index the variant's
\* name, then its discriminator, then its field list.
C17_FailFastOrder ==
    DiffDone =>
        /\ (diff_a.kind = "Struct" /\ diff_b.kind = "Struct") =>
              Reports(diff_out, FirstFieldDifference(diff_a.fields, diff_b.fields, Str_dot))
        /\ (diff_a.kind = "Enum" /\ diff_b.kind = "Enum") =>
              Reports(diff_out, FirstVariantDifference(diff_a.variants, diff_b.variants, Str_dot))

\* Two enums whose first variants agree and whose second variants differ in
\* name, discriminator and field list: the name is what is reported.
C17_Witness ==
    /\ DiffDone
    /\ diff_a = Schema_Enum(<<Variant(Str_x, 0, <<>>), Variant(Str_x, 0, <<>>)>>)
    /\ diff_b = Schema_Enum(<<Variant(Str_x, 0, <<>>),
                              Variant(Str_y, 1, <<Field(Str_x, P32)>>)>>)
    /\ diff_out.some
    /\ diff_out.msg.text = "variant name"
    /\ diff_out.msg.index = 1

\* ------------------------------------------------------------------------
\* The labels of the IncompatibleSchema message of load (checked under Spec).
\* ------------------------------------------------------------------------
\* load has returned IncompatibleSchema: the file's schema was decoded and
\* the guard stopped the load before the payload.
SchemaRejected ==
    /\ LoadDone
    /\ fetch_schema
    /\ file_schema # NoSchema
    /\ ~deserialized
    /\ ~result.ok

\* C19: in the IncompatibleSchema message of load, what is labelled as in
\* memory ("Application protocol", "In memory") is taken from
\* T::schema(file_version), and what is labelled as disk format or file
\* schema is taken from the schema decoded from the stream.
C19_MessageLabels ==
    (SchemaRejected /\ result.err.err.path = Str_dot) =>
        /\ result.err.err.text = "datatype" =>
              /\ result.err.err.application = memory_schema.prim
              /\ result.err.err.disk = file_schema.prim
        /\ result.err.err.text = "schema kind" =>
              /\ result.err.err.in_memory = KindName(memory_schema)
              /\ result.err.err.file = KindName(file_schema)

====
